---------------------------- MODULE Spec2Model ----------------------------
(***************************************************************************)
(* Model of retdec's database of object names                              *)
(* (src/bin2llvmir/providers/names.cpp): Name, Names, NameContainer.       *)
(*                                                                         *)
(* Texts (std::string) are sequences of character codes, so that the       *)
(* lexical order of Name::operator< is computed and not assumed.           *)
(***************************************************************************)
EXTENDS Integers, Sequences, FiniteSets, TLC

VARIABLES
    _data,      \* NameContainer::_data : Address -> Names (a sorted sequence)
    _dllOrds,   \* NameContainer::_dllOrds : library name -> (ordinal -> name)
    files,      \* the ordinal files on disk: library name -> NoFile or content
    last,       \* the last call made on the registry, with what it returned
    added,      \* history: the <<address, Name>> pairs handed to std::set::emplace
    failedLibs, \* history: libraries for which a call found the file absent
    _module2names, \* NamesProvider::_module2names : module -> NameContainer
    created     \* history: module -> the registry its first addNames made

vars == <<_data, _dllOrds, files, last, added, failedLibs, _module2names,
          created>>

-----------------------------------------------------------------------------
(* Bounds of the model. *)

\* Largest number of names one collection holds in the model.
MaxNames == 2

\* Largest number of lines of an ordinal file in the model.
MaxLines == 2
MaxImports == 2

-----------------------------------------------------------------------------
(* Texts. *)

EmptyText == << >>
\* "_main"
Text__main == <<95, 109, 97, 105, 110>>
\* "main"
Text_main == <<109, 97, 105, 110>>
\* "f"
Text_f == <<102>>
\* "CreateWidget"
Text_CreateWidget == <<67, 114, 101, 97, 116, 101, 87, 105, 100, 103, 101, 116>>
\* "Other"
Text_Other == <<79, 116, 104, 101, 114>>
\* "Foo"
Text_Foo == <<70, 111, 111>>
\* "abc"
Text_abc == <<97, 98, 99>>

\* std::string operator< : lexicographic on the characters, a proper prefix
\* is smaller.
RECURSIVE LexLess(_, _)
LexLess(s, t) ==
    IF t = << >> THEN FALSE
    ELSE IF s = << >> THEN TRUE
    ELSE IF Head(s) # Head(t) THEN Head(s) < Head(t)
    ELSE LexLess(Tail(s), Tail(t))

-----------------------------------------------------------------------------
(* Addresses. *)

\* utils::Address : the undefined address.
Undefined == -1

isUndefined(a) == a = Undefined

-----------------------------------------------------------------------------
(* Name *)

\* Name::eType, the enumerators in declaration order.
eType ==
    [ INVALID            |-> 0,
      CONFIG_ENTRY_POINT |-> 1,
      CONFIG_FUNCTION    |-> 2,
      CONFIG_GLOBAL      |-> 3,
      CONFIG_SEGMENT     |-> 4,
      DEBUG_FUNCTION     |-> 5,
      DEBUG_GLOBAL       |-> 6,
      IMPORT_GENERATED   |-> 7,
      IMPORT             |-> 8,
      EXPORT             |-> 9,
      SYMBOL_FUNCTION    |-> 10,
      SYMBOL_OBJECT      |-> 11,
      SYMBOL_FILE        |-> 12,
      SYMBOL_OTHER       |-> 13,
      ENTRY_POINT        |-> 14 ]

\* utils::normalizeNamePrefix
normalizeNamePrefix(name) == name

\* Name::Name() : the default-constructed name, Names::_emptyName.
EmptyName == [name |-> EmptyText, type |-> eType.INVALID]

\* A mutant of Name::Name : "_main" is kept as it is.
NameCtor_Verbatim(name, type) ==
    [name |-> normalizeNamePrefix(name), type |-> type]

\* Name::Name(const std::string&, eType)
NameCtor(name, type) ==
    LET n == normalizeNamePrefix(name)
    IN  [name |-> IF n = Text__main THEN Text_main ELSE n, type |-> type]

\* Name::operator bool
NameBool(n) == n.type # eType.INVALID

\* A mutant of Name::operator< : the text is compared first.
NameLess_TextFirst(x, o) ==
    IF x.name = o.name THEN x.type < o.type ELSE LexLess(x.name, o.name)

\* Name::operator<
NameLess(x, o) ==
    IF x.type = o.type THEN LexLess(x.name, o.name) ELSE x.type < o.type

-----------------------------------------------------------------------------
(* Names : a std::set<Name>, kept as the sequence of its elements in       *)
(* iteration order.                                                        *)

Range(s) == {s[i] : i \in DOMAIN s}

\* A mutant of std::set::emplace : no check for an equivalent element.
SetEmplace_Multi(s, n) ==
    LET k == Cardinality({i \in DOMAIN s : ~NameLess(n, s[i])})
    IN  SubSeq(s, 1, k) \o <<n>> \o SubSeq(s, k + 1, Len(s))

\* A mutant of std::set::emplace : the element goes to the end.
SetEmplace_Append(s, n) ==
    IF \E i \in DOMAIN s : s[i] = n THEN s ELSE Append(s, n)

\* std::set::emplace : nothing is inserted when an element equivalent to n
\* (neither less than the other) is present; otherwise n goes before the
\* first element it is less than.
SetEmplace(s, n) ==
    IF \E i \in DOMAIN s : ~NameLess(s[i], n) /\ ~NameLess(n, s[i])
    THEN s
    ELSE LET k == Cardinality({i \in DOMAIN s : NameLess(s[i], n)})
         IN  SubSeq(s, 1, k) \o <<n>> \o SubSeq(s, k + 1, Len(s))

\* Names::addName : the collection after the call and the value returned.
Names_addName(ns, name, type) ==
    IF name = EmptyText
    THEN [names |-> ns, ret |-> FALSE]
    ELSE [names |-> SetEmplace(ns, NameCtor(name, type)), ret |-> TRUE]

\* A mutant of Names::getPreferredName : the last element.
Names_getPreferredName_Last(ns) ==
    IF ns = << >> THEN EmptyName ELSE ns[Len(ns)]

\* Names::getPreferredName
Names_getPreferredName(ns) ==
    IF ns = << >> THEN EmptyName ELSE ns[1]

\* Names::size
Names_size(ns) == Len(ns)

-----------------------------------------------------------------------------
(* NameContainer : the address-to-collection mapping.                      *)

\* std::map::operator[] : the mapping with a default-constructed (empty)
\* collection at a when it had none.
MapIndex(d, a) ==
    IF a \in DOMAIN d THEN d ELSE [x \in DOMAIN d \cup {a} |->
                                      IF x = a THEN << >> ELSE d[x]]

\* A mutant of NameContainer::addNameForAddress : the collection is looked
\* up (and so created) before the arguments are checked.
addNameForAddress_IndexFirst(d, a, name, type) ==
    LET d1 == MapIndex(d, a)
    IN  IF isUndefined(a) \/ name = EmptyText
        THEN [data |-> d1, ret |-> FALSE]
        ELSE LET r == Names_addName(d1[a], name, type)
             IN  [data |-> [d1 EXCEPT ![a] = r.names], ret |-> r.ret]

\* A mutant of NameContainer::addNameForAddress : the name is stored in a
\* new collection that replaces the one of the address.
addNameForAddress_Replace(d, a, name, type) ==
    IF isUndefined(a) \/ name = EmptyText
    THEN [data |-> d, ret |-> FALSE]
    ELSE LET r == Names_addName(<< >>, name, type)
         IN  [data |-> [x \in DOMAIN d \cup {a} |->
                           IF x = a THEN r.names ELSE d[x]],
              ret |-> r.ret]

\* NameContainer::addNameForAddress : the mapping after the call and the
\* value returned.
addNameForAddress(d, a, name, type) ==
    IF isUndefined(a) \/ name = EmptyText
    THEN [data |-> d, ret |-> FALSE]
    ELSE LET d1 == MapIndex(d, a)
             r  == Names_addName(d1[a], name, type)
         IN  [data |-> [d1 EXCEPT ![a] = r.names], ret |-> r.ret]

\* A mutant of NameContainer::getNamesForAddress : the collection at a is
\* replaced by an empty one.
getNamesForAddress_Reset(d, a) ==
    [data  |-> [x \in DOMAIN d \cup {a} |-> IF x = a THEN << >> ELSE d[x]],
     names |-> << >>]

\* NameContainer::getNamesForAddress
getNamesForAddress(d, a) ==
    LET d1 == MapIndex(d, a) IN [data |-> d1, names |-> d1[a]]

\* NameContainer::getPreferredNameForAddress
getPreferredNameForAddress(d, a) ==
    LET d1 == MapIndex(d, a)
    IN  [data |-> d1, name |-> Names_getPreferredName(d1[a])]

-----------------------------------------------------------------------------
(* Ordinal files.  A file is a sequence of lines and the fact whether the  *)
(* last line ends with a newline; a line is the sequence of its            *)
(* whitespace-separated tokens.  A token is either a decimal integer (num, *)
(* with its value) or any other word; text is its spelling.  The integers  *)
(* of the model are in the range of the C++ int the code reads them into.  *)

Num(v, t) == [num |-> TRUE, val |-> v, text |-> t]
Word(t) == [num |-> FALSE, val |-> 0, text |-> t]

NoFile == [exists |-> FALSE, lines |-> << >>, nl |-> TRUE]

\* ordDecl >> ord, with ord = -1 before: an empty line leaves ord alone (the
\* sentry fails at the end of the stream) and a token that is no integer
\* stores 0 (the rule of num_get since C++11); the stream fails in both cases.
ExtractOrd(line) ==
    IF line = << >> THEN [ord |-> -1, fail |-> TRUE]
    ELSE IF ~line[1].num THEN [ord |-> 0, fail |-> TRUE]
    ELSE [ord |-> line[1].val, fail |-> FALSE]

\* ... >> funcName : the next token; nothing is read from a failed stream
\* or at the end of the line, and funcName stays empty.
ExtractFuncName(line) ==
    IF ExtractOrd(line).fail \/ Len(line) < 2 THEN EmptyText ELSE line[2].text

\* ordMap[ord] = funcName
MapAssign(m, k, v) == [x \in DOMAIN m \cup {k} |-> IF x = k THEN v ELSE m[x]]

\* The body of the while loop of loadImportOrds, for one line.
LoadLine(ordMap, line) ==
    LET ord == ExtractOrd(line).ord
    IN  IF ord >= 0 THEN MapAssign(ordMap, ord, ExtractFuncName(line))
        ELSE ordMap

\* The lines for which the body of the loop runs: getline sets eofbit when
\* it reaches the end of the file before a newline, so the loop ends
\* on a last line that is not terminated without running the body for it.
LoopLines(f) ==
    IF f.nl THEN f.lines ELSE SubSeq(f.lines, 1, Len(f.lines) - 1)

RECURSIVE LoadLines(_, _)
LoadLines(ordMap, lines) ==
    IF lines = << >> THEN ordMap
    ELSE LoadLines(LoadLine(ordMap, Head(lines)), Tail(lines))

EmptyMap == [x \in {} |-> EmptyText]

\* NameContainer::loadImportOrds : whether the file was opened, and the map
\* that is then stored for the library.
loadImportOrds(f) ==
    IF ~f.exists
    THEN [ok |-> FALSE, ordMap |-> EmptyMap]
    ELSE [ok |-> TRUE, ordMap |-> LoadLines(EmptyMap, LoopLines(f))]

\* std::map::emplace : no effect when the key is present.
MapEmplace(m, k, v) ==
    IF k \in DOMAIN m THEN m
    ELSE [x \in DOMAIN m \cup {k} |-> IF x = k THEN v ELSE m[x]]

\* const ImportOrdMap& ords = it->second; ords.find(ord)
OrdLookup(ords, ord) ==
    IF ord \in DOMAIN ords THEN ords[ord] ELSE EmptyText

\* A mutant of NameContainer::getNameFromImportLibAndOrd : a failed load is
\* remembered as an empty map.
getNameFromImportLibAndOrd_NegCache(dll, fs, libName, ord) ==
    IF libName \in DOMAIN dll
    THEN [dllOrds |-> dll, ret |-> OrdLookup(dll[libName], ord), opened |-> FALSE]
    ELSE LET r == loadImportOrds(fs[libName])
             d1 == MapEmplace(dll, libName, r.ordMap)
         IN  [dllOrds |-> d1, ret |-> OrdLookup(d1[libName], ord), opened |-> TRUE]

\* A mutant of NameContainer::getNameFromImportLibAndOrd : the file is
\* loaded on every call.
getNameFromImportLibAndOrd_Reload(dll, fs, libName, ord) ==
    LET r == loadImportOrds(fs[libName])
    IN  IF ~r.ok
        THEN [dllOrds |-> dll, ret |-> EmptyText, opened |-> TRUE]
        ELSE LET d1 == MapAssign(dll, libName, r.ordMap)
             IN  [dllOrds |-> d1, ret |-> OrdLookup(d1[libName], ord),
                  opened |-> TRUE]

\* NameContainer::getNameFromImportLibAndOrd : the cache after the call, the
\* string returned, and whether the call tried to open the file.
getNameFromImportLibAndOrd(dll, fs, libName, ord) ==
    IF libName \in DOMAIN dll
    THEN [dllOrds |-> dll, ret |-> OrdLookup(dll[libName], ord), opened |-> FALSE]
    ELSE LET r == loadImportOrds(fs[libName])
         IN  IF ~r.ok
             THEN [dllOrds |-> dll, ret |-> EmptyText, opened |-> TRUE]
             ELSE LET d1 == MapEmplace(dll, libName, r.ordMap)
                  IN  [dllOrds |-> d1, ret |-> OrdLookup(d1[libName], ord),
                       opened |-> TRUE]

-----------------------------------------------------------------------------
(* Population: the constructor of NameContainer and its three phases.  A   *)
(* registry under construction is the record of its _data and _dllOrds.    *)
(* The sources are records: an item of a source is [addr, name]; a debug   *)
(* global also says whether its storage is memory, a symbol whether it has *)
(* a real address and what its usage is, an import its library name and    *)
(* whether it has an ordinal.  The image has a file format.                *)

\* names::entryPointName, "entry_point"
Text_entryPointName == <<101, 110, 116, 114, 121, 95, 112, 111, 105, 110, 116>>

\* names::generatedImportPrefix, "imported_function_ord_"
Text_generatedImportPrefix ==
    <<105, 109, 112, 111, 114, 116, 101, 100, 95, 102, 117, 110, 99, 116,
      105, 111, 110, 95, 111, 114, 100, 95>>

\* ".dll"
Text_dotdll == <<46, 100, 108, 108>>
\* "foo"
Text_foo == <<102, 111, 111>>

\* std::to_string(unsigned long long) : the decimal digits.
RECURSIVE to_string(_)
to_string(n) ==
    IF n < 10 THEN <<48 + n>> ELSE to_string(n \div 10) \o <<48 + (n % 10)>>

\* std::transform(libN.begin(), libN.end(), libN.begin(), ::tolower)
tolower(t) == [i \in DOMAIN t |-> IF t[i] >= 65 /\ t[i] <= 90 THEN t[i] + 32
                                  ELSE t[i]]

\* utils::removeSuffix
removeSuffix(t, suffix) ==
    IF /\ Len(t) >= Len(suffix)
       /\ SubSeq(t, Len(t) - Len(suffix) + 1, Len(t)) = suffix
    THEN SubSeq(t, 1, Len(t) - Len(suffix))
    ELSE t

\* The ordinal file dir + "/" + libName + ".ord" : the file of "foo" for the
\* name "foo"; no other name has a file in the model.
OrdFileOf(libName) == IF libName = Text_foo THEN "foo" ELSE "missing"

EmptyRegistry == [data |-> [x \in {} |-> << >>],
                  dllOrds |-> [x \in {} |-> EmptyMap]]

\* A loop of addNameForAddress calls over the items of a source, all with
\* the same Name::eType.
RECURSIVE AddItems(_, _, _)
AddItems(d, items, type) ==
    IF items = << >> THEN d
    ELSE AddItems(addNameForAddress(d, Head(items).addr, Head(items).name,
                                    type).data,
                  Tail(items), type)

\* NameContainer::initFromConfig
initFromConfig(reg, config) ==
    LET d1 == addNameForAddress(reg.data, config.entryPoint,
                                Text_entryPointName,
                                eType.CONFIG_ENTRY_POINT).data
        d2 == AddItems(d1, config.functions, eType.CONFIG_FUNCTION)
        d3 == AddItems(d2, config.globals, eType.CONFIG_GLOBAL)
        d4 == AddItems(d3, config.segments, eType.CONFIG_SEGMENT)
    IN  [reg EXCEPT !.data = d4]

\* The items of the debug globals whose storage is memory.
MemoryGlobals(globals) == SelectSeq(globals, LAMBDA g : g.isMemory)

\* A mutant of NameContainer::initFromDebug : the mapping is built anew from
\* the debug names.
initFromDebug_Replace(reg, debug) ==
    IF ~debug.present THEN reg
    ELSE [reg EXCEPT !.data =
             AddItems(AddItems(EmptyRegistry.data, debug.functions,
                               eType.DEBUG_FUNCTION),
                      MemoryGlobals(debug.globals), eType.DEBUG_GLOBAL)]

\* NameContainer::initFromDebug
initFromDebug(reg, debug) ==
    IF ~debug.present THEN reg
    ELSE [reg EXCEPT !.data =
             AddItems(AddItems(reg.data, debug.functions,
                               eType.DEBUG_FUNCTION),
                      MemoryGlobals(debug.globals), eType.DEBUG_GLOBAL)]

\* A mutant of the import loop : the library name is used as it is written
\* in the import table.
ImportStep_RawLib(reg, imp, fs) ==
    LET unnamed == imp.name = EmptyText
        ordOk   == unnamed /\ imp.hasOrd
        r       == getNameFromImportLibAndOrd(reg.dllOrds, fs,
                                              OrdFileOf(imp.lib), imp.ord)
        name    == IF ordOk THEN r.ret ELSE imp.name
        dll     == IF ordOk THEN r.dllOrds ELSE reg.dllOrds
    IN  IF name = EmptyText /\ ordOk
        THEN [data |-> addNameForAddress(reg.data, imp.addr,
                          Text_generatedImportPrefix \o to_string(imp.ord),
                          eType.IMPORT_GENERATED).data,
              dllOrds |-> dll]
        ELSE [data |-> addNameForAddress(reg.data, imp.addr, name,
                                         eType.IMPORT).data,
              dllOrds |-> dll]

\* NameContainer::initFromImage, the body of the loop over the import table.
ImportStep(reg, imp, fs) ==
    LET unnamed == imp.name = EmptyText
        libN    == removeSuffix(tolower(imp.lib), Text_dotdll)
        ordOk   == unnamed /\ imp.hasOrd
        r       == getNameFromImportLibAndOrd(reg.dllOrds, fs,
                                              OrdFileOf(libN), imp.ord)
        name    == IF ordOk THEN r.ret ELSE imp.name
        dll     == IF ordOk THEN r.dllOrds ELSE reg.dllOrds
    IN  IF name = EmptyText /\ ordOk
        THEN [data |-> addNameForAddress(reg.data, imp.addr,
                          Text_generatedImportPrefix \o to_string(imp.ord),
                          eType.IMPORT_GENERATED).data,
              dllOrds |-> dll]
        ELSE [data |-> addNameForAddress(reg.data, imp.addr, name,
                                         eType.IMPORT).data,
              dllOrds |-> dll]

\* NameContainer::initFromImage, the loop over the import table.
RECURSIVE initImports(_, _, _)
initImports(reg, imports, fs) ==
    IF imports = << >> THEN reg
    ELSE initImports(ImportStep(reg, Head(imports), fs), Tail(imports), fs)

\* The Name::eType of a symbol, from its usage type.
SymbolType(usage) ==
    CASE usage = "FUNCTION" -> eType.SYMBOL_FUNCTION
      [] usage = "OBJECT"   -> eType.SYMBOL_OBJECT
      [] usage = "FILE"     -> eType.SYMBOL_FILE
      [] OTHER              -> eType.SYMBOL_OTHER

\* NameContainer::initFromImage, the loop over the symbols of the symbol
\* tables.
RECURSIVE initSymbols(_, _)
initSymbols(d, symbols) ==
    IF symbols = << >> THEN d
    ELSE LET s == Head(symbols)
         IN  initSymbols(IF s.hasAddr
                         THEN addNameForAddress(d, s.addr, s.name,
                                                SymbolType(s.usage)).data
                         ELSE d,
                         Tail(symbols))

\* NameContainer::initFromImage, the entry point of the file format.
initEntryPoint(d, ep) ==
    IF ep.ok
    THEN addNameForAddress(d, ep.addr, Text_entryPointName,
                           eType.ENTRY_POINT).data
    ELSE d

\* A mutant of the loop over the segments : the names get the provenance
\* of the segments of the config.
initSegments_ConfigSegment(d, segments) ==
    AddItems(d, segments, eType.CONFIG_SEGMENT)

\* NameContainer::initFromImage, the loop over the segments of the image.
initSegments(d, segments) == AddItems(d, segments, eType.ENTRY_POINT)

\* NameContainer::initFromImage
initFromImage(reg, image, fs) ==
    LET r1 == IF image.imports.present
              THEN initImports(reg, image.imports.items, fs) ELSE reg
        d2 == IF image.exports.present
              THEN AddItems(r1.data, image.exports.items, eType.EXPORT)
              ELSE r1.data
        d3 == initSymbols(d2, image.symbols)
        d4 == initEntryPoint(d3, image.ep)
        d5 == initSegments(d4, image.segments)
    IN  [r1 EXCEPT !.data = d5]

\* NameContainer::NameContainer : the registry the constructor leaves.
NameContainerCtor(config, debug, image, fs) ==
    initFromImage(initFromDebug(initFromConfig(EmptyRegistry, config), debug),
                  image, fs)

-----------------------------------------------------------------------------
(* The inputs of the model. *)

\* Addresses handed to the registry.
AddrInputs == {Undefined, 4096, 8192}

\* Texts handed to addNameForAddress.
TextInputs == {EmptyText, Text__main, Text_main, Text_f}

\* Provenances handed to addNameForAddress.
TypeInputs == {eType.INVALID, eType.CONFIG_FUNCTION, eType.DEBUG_FUNCTION}

\* Library names: "foo" has an ordinal file that comes and goes, "missing"
\* never has one.
Libs == {"foo", "missing"}
WritableLibs == {"foo"}

\* Ordinals asked for.
OrdInputs == {0, 7, 99}

\* Lines the ordinal file of "foo" is written from.
Line_7_CreateWidget == <<Num(7, <<55>>), Word(Text_CreateWidget)>>
Line_7_Other == <<Num(7, <<55>>), Word(Text_Other)>>
Line_0_Foo == <<Num(0, <<48>>), Word(Text_Foo)>>
Line_abc == <<Word(Text_abc)>>
Line_blank == << >>
Line_neg == <<Num(-5, <<45, 53>>), Word(Text_f)>>

LineInputs ==
    {Line_7_CreateWidget, Line_7_Other, Line_0_Foo, Line_abc, Line_blank,
     Line_neg}

\* Sources the constructor populates a registry from.
\* "g", ".text", "FOO.DLL", "bar"
Text_g == <<103>>
Text_dottext == <<46, 116, 101, 120, 116>>
Text_FOO_DLL == <<70, 79, 79, 46, 68, 76, 76>>
Text_bar == <<98, 97, 114>>

PopAddrs == {Undefined, 4096}

Item(a, name) == [addr |-> a, name |-> name]

\* No item, or one item with one of the names.
OptItem(names) ==
    {<< >>} \cup {<<Item(a, name)>> : a \in PopAddrs, name \in names}

NoConfig == [entryPoint |-> Undefined, functions |-> << >>,
             globals |-> << >>, segments |-> << >>]
NoDebug == [present |-> FALSE, functions |-> << >>, globals |-> << >>]
NoTable == [present |-> FALSE, items |-> << >>]
NoEntryPoint == [ok |-> FALSE, addr |-> 0]
NoImage == [imports |-> NoTable, exports |-> NoTable, symbols |-> << >>,
            ep |-> NoEntryPoint, segments |-> << >>]
Table(items) == [present |-> TRUE, items |-> items]

ImportInputs ==
    {[addr |-> 4096, name |-> name, lib |-> lib, hasOrd |-> o[1],
      ord |-> o[2]] :
        name \in {EmptyText, Text_f}, lib \in {Text_FOO_DLL, Text_bar},
        o \in {<<FALSE, 0>>, <<TRUE, 7>>, <<TRUE, 99>>}} \cup
    {[addr |-> Undefined, name |-> name, lib |-> Text_FOO_DLL,
      hasOrd |-> TRUE, ord |-> 7] : name \in {EmptyText, Text_f}}

RECURSIVE SeqsUpTo(_, _)
SeqsUpTo(S, n) ==
    IF n = 0 THEN {<< >>}
    ELSE LET shorter == SeqsUpTo(S, n - 1)
         IN  shorter \cup {Append(q, x) : q \in shorter, x \in S}

DebugInputs ==
    {NoDebug} \cup
    {[present |-> TRUE, functions |-> fs, globals |-> gs] :
        fs \in OptItem({EmptyText, Text_f}),
        gs \in {<< >>} \cup
               {<<[isMemory |-> m, addr |-> a, name |-> Text_g]>> :
                   m \in BOOLEAN, a \in PopAddrs}}

SymbolInputs ==
    {<< >>,
     <<[hasAddr |-> FALSE, addr |-> 4096, name |-> Text__main,
        usage |-> "FUNCTION"]>>} \cup
    {<<[hasAddr |-> TRUE, addr |-> a, name |-> name, usage |-> u]>> :
        a \in PopAddrs, name \in {EmptyText, Text__main},
        u \in {"FUNCTION", "OBJECT", "FILE", "OTHER"}}

\* Images that differ in their import table.
PopImports ==
    {[config |-> NoConfig, debug |-> NoDebug, image |-> NoImage]} \cup
    {[config |-> NoConfig, debug |-> NoDebug,
      image |-> [NoImage EXCEPT !.imports = Table(imps)]] :
        imps \in SeqsUpTo(ImportInputs, MaxImports)}

\* A config function, debug information and a symbol.
PopPhases ==
    {[config |-> [NoConfig EXCEPT !.functions = fs], debug |-> d,
      image |-> [NoImage EXCEPT !.symbols = syms]] :
        fs \in OptItem({EmptyText, Text_f}), d \in DebugInputs,
        syms \in SymbolInputs}

\* Entry points and segments of the config and of the image, with a config
\* global, exports, a debug function, an import and a symbol next to them.
PopEntry ==
    {[config |-> [entryPoint |-> cep, functions |-> << >>, globals |-> gs,
                  segments |-> csegs],
      debug |-> d,
      image |-> [imports |-> imps, exports |-> exps, symbols |-> syms,
                 ep |-> iep, segments |-> isegs]] :
        cep \in {Undefined, 4096, 8192},
        gs \in {<< >>, <<Item(4096, Text_g)>>},
        csegs \in {<< >>, <<Item(4096, Text_dottext)>>},
        d \in {NoDebug, [present |-> TRUE, functions |-> <<Item(4096, Text_f)>>,
                         globals |-> << >>]},
        imps \in {NoTable,
                  Table(<<[addr |-> 4096, name |-> Text_f, lib |-> Text_bar,
                           hasOrd |-> TRUE, ord |-> 7]>>)},
        exps \in {NoTable, Table(<<Item(4096, Text_f)>>)},
        syms \in {<< >>, <<[hasAddr |-> TRUE, addr |-> 4096,
                            name |-> Text__main, usage |-> "FUNCTION"]>>},
        iep \in {NoEntryPoint, [ok |-> TRUE, addr |-> 4096],
                 [ok |-> TRUE, addr |-> 8192]},
        isegs \in OptItem({EmptyText, Text_dottext})}

PopInputs == PopImports \cup PopPhases \cup PopEntry

\* The ordinal file of "foo" at construction.
PopFiles ==
    {NoFile, [exists |-> TRUE, lines |-> <<Line_7_CreateWidget>>, nl |-> TRUE]}

\* Handles given to the provider: a null pointer, two modules, two configs,
\* a debug format, an image and a demangler.
Null == "nullptr"
Modules == {"m1", "m2"}
Configs == {"c1", "c2"}
Debugs == {"d1"}
Images == {"i1"}
Demanglers == {"dm1"}

\* What the handles point to.
ConfigOf(c) ==
    IF c = "c1"
    THEN [NoConfig EXCEPT !.functions = <<Item(4096, Text_f)>>]
    ELSE [NoConfig EXCEPT !.functions = <<Item(4096, Text_g)>>,
                          !.entryPoint = 8192]
DebugOf(d) ==
    IF d = Null THEN NoDebug
    ELSE [present |-> TRUE, functions |-> <<Item(4096, Text_main)>>,
          globals |-> <<[isMemory |-> TRUE, addr |-> 8192, name |-> Text_g]>>]
ImageOf(i) ==
    [NoImage EXCEPT !.symbols = <<[hasAddr |-> TRUE, addr |-> 4096,
                                   name |-> Text__main, usage |-> "OBJECT"]>>,
                    !.ep = [ok |-> TRUE, addr |-> 8192]]

-----------------------------------------------------------------------------
(* NamesProvider: the table of the registries, one for a module.  A         *)
(* registry is the record of its _data and _dllOrds; a pointer to a         *)
(* registry of the table is the module it is stored under.                 *)

NoTableEntries == [x \in {} |-> EmptyRegistry]

\* A mutant of NamesProvider::addNames : the new registry replaces the one
\* the table holds.
NamesProvider_addNames_Overwrite(t, m, c, d, i, dm, fs) ==
    IF m = Null \/ c = Null \/ i = Null \/ dm = Null
    THEN [table |-> t, ret |-> Null, constructed |-> FALSE]
    ELSE [table |-> MapAssign(t, m, NameContainerCtor(ConfigOf(c), DebugOf(d),
                                                      ImageOf(i), fs)),
          ret |-> m, constructed |-> TRUE]

\* A mutant of NamesProvider::addNames : the demangler is not asked for.
NamesProvider_addNames_NoDemangler(t, m, c, d, i, dm, fs) ==
    IF m = Null \/ c = Null \/ i = Null
    THEN [table |-> t, ret |-> Null, constructed |-> FALSE]
    ELSE [table |-> MapEmplace(t, m, NameContainerCtor(ConfigOf(c), DebugOf(d),
                                                       ImageOf(i), fs)),
          ret |-> m, constructed |-> TRUE]

\* NamesProvider::addNames(m, c, d, i, dm) : the table it leaves, the
\* pointer it returns and whether it has constructed a NameContainer.
NamesProvider_addNames(t, m, c, d, i, dm, fs) ==
    IF m = Null \/ c = Null \/ i = Null \/ dm = Null
    THEN [table |-> t, ret |-> Null, constructed |-> FALSE]
    ELSE [table |-> MapEmplace(t, m, NameContainerCtor(ConfigOf(c), DebugOf(d),
                                                       ImageOf(i), fs)),
          ret |-> m, constructed |-> TRUE]

\* A mutant of NamesProvider::getNames : the table is indexed.
NamesProvider_getNames_Index(t, m) ==
    [table |-> MapEmplace(t, m, EmptyRegistry), ret |-> m]

\* NamesProvider::getNames(m)
NamesProvider_getNames(t, m) ==
    [table |-> t, ret |-> IF m \in DOMAIN t THEN m ELSE Null]

\* NamesProvider::getNames(m, names) : names and the value returned.
NamesProvider_getNamesInto(t, m) ==
    LET r == NamesProvider_getNames(t, m)
    IN  [table |-> r.table, names |-> r.ret, ret |-> r.ret # Null]

\* NamesProvider::clear()
NamesProvider_clear(t) == NoTableEntries

-----------------------------------------------------------------------------
(* The state machine. *)

NoCall ==
    [op |-> "none", a |-> Undefined, name |-> EmptyText, type |-> eType.INVALID,
     lib |-> "", ord |-> 0, ret |-> FALSE, str |-> EmptyText,
     opened |-> FALSE, again |-> FALSE,
     config |-> NoConfig, debug |-> NoDebug, image |-> NoImage,
     m |-> Null, c |-> Null, d |-> Null, i |-> Null, dm |-> Null,
     ptr |-> Null, constructed |-> FALSE]

\* A call record, with again telling whether the call before it was the
\* same call with the same arguments.
Call(c) ==
    [c EXCEPT !.again =
        /\ last.op = c.op /\ last.a = c.a /\ last.name = c.name
        /\ last.type = c.type /\ last.lib = c.lib /\ last.ord = c.ord]

\* A registry constructed from sources that hold no entry (config without
\* entry point, functions, globals or segments, no debug information, an
\* image without tables, entry point or segments); no ordinal file exists.
Init ==
    /\ _data = [x \in {} |-> << >>]
    /\ _dllOrds = [x \in {} |-> EmptyMap]
    /\ files = [l \in Libs |-> NoFile]
    /\ last = NoCall
    /\ added = {}
    /\ failedLibs = {}
    /\ _module2names = NoTableEntries
    /\ created = NoTableEntries

\* NameContainer::addNameForAddress(a, name, type)
AddName(a, name, type) ==
    \E r \in {addNameForAddress(_data, a, name, type)} :
        /\ \A x \in DOMAIN r.data : Len(r.data[x]) <= MaxNames
        /\ _data' = r.data
        /\ last' = Call([NoCall EXCEPT !.op = "addName", !.a = a,
                            !.name = name, !.type = type, !.ret = r.ret])
        /\ added' = IF isUndefined(a) \/ name = EmptyText THEN added
                    ELSE added \cup {<<a, NameCtor(name, type)>>}
        /\ UNCHANGED <<_dllOrds, files, failedLibs, _module2names, created>>

\* NameContainer::getNamesForAddress(a)
GetNames(a) ==
    \E r \in {getNamesForAddress(_data, a)} :
        /\ _data' = r.data
        /\ last' = Call([NoCall EXCEPT !.op = "getNames", !.a = a])
        /\ UNCHANGED <<_dllOrds, files, added, failedLibs, _module2names, created>>

\* NameContainer::getPreferredNameForAddress(a); name and type of the call
\* record hold the Name returned.
GetPreferredName(a) ==
    \E r \in {getPreferredNameForAddress(_data, a)} :
        /\ _data' = r.data
        /\ last' = Call([NoCall EXCEPT !.op = "getPreferredName", !.a = a,
                            !.name = r.name.name, !.type = r.name.type])
        /\ UNCHANGED <<_dllOrds, files, added, failedLibs, _module2names, created>>

\* NameContainer::getNameFromImportLibAndOrd(libName, ord)
Resolve(libName, ord) ==
    \E r \in {getNameFromImportLibAndOrd(_dllOrds, files, libName, ord)} :
        /\ _dllOrds' = r.dllOrds
        /\ last' = Call([NoCall EXCEPT !.op = "resolve", !.lib = libName,
                            !.ord = ord, !.str = r.ret, !.opened = r.opened])
        /\ failedLibs' = IF r.opened /\ ~files[libName].exists
                         THEN failedLibs \cup {libName} ELSE failedLibs
        /\ UNCHANGED <<_data, files, added, _module2names, created>>

\* The environment removes the ordinal file of a library.
FileDelete(libName) ==
    /\ files[libName].exists
    /\ files' = [files EXCEPT ![libName] = NoFile]
    /\ last' = [NoCall EXCEPT !.op = "fileDelete", !.lib = libName]
    /\ UNCHANGED <<_data, _dllOrds, added, failedLibs, _module2names, created>>

\* The environment creates the ordinal file of a library, empty.
FileCreate(libName) ==
    /\ ~files[libName].exists
    /\ files' = [files EXCEPT ![libName] =
                    [exists |-> TRUE, lines |-> << >>, nl |-> TRUE]]
    /\ last' = [NoCall EXCEPT !.op = "fileCreate", !.lib = libName]
    /\ UNCHANGED <<_data, _dllOrds, added, failedLibs, _module2names, created>>

\* The environment adds a line to the ordinal file of a library (ending the
\* line before it), with or without a newline after it.
FileAppend(libName, line, nl) ==
    /\ files[libName].exists
    /\ Len(files[libName].lines) < MaxLines
    /\ files' = [files EXCEPT ![libName] =
                    [exists |-> TRUE, lines |-> Append(@.lines, line),
                     nl |-> nl]]
    /\ last' = [NoCall EXCEPT !.op = "fileAppend", !.lib = libName]
    /\ UNCHANGED <<_data, _dllOrds, added, failedLibs, _module2names, created>>

\* NameContainer::NameContainer(m, c, d, i, dm), on a registry not yet
\* constructed.
Construct(config, debug, image) ==
    /\ last.op = "none"
    /\ \E r \in {NameContainerCtor(config, debug, image, files)} :
          /\ _data' = r.data
          /\ _dllOrds' = r.dllOrds
    /\ last' = [NoCall EXCEPT !.op = "construct", !.config = config,
                              !.debug = debug, !.image = image]
    /\ UNCHANGED <<files, added, failedLibs, _module2names, created>>

\* Before construction: the ordinal file of "foo" exists or not.
InitPop ==
    /\ _data = [x \in {} |-> << >>]
    /\ _dllOrds = [x \in {} |-> EmptyMap]
    /\ files \in {[l \in Libs |-> IF l = "foo" THEN f ELSE NoFile] :
                     f \in PopFiles}
    /\ last = NoCall
    /\ added = {}
    /\ failedLibs = {}
    /\ _module2names = NoTableEntries
    /\ created = NoTableEntries

NextPop == \E src \in PopInputs : Construct(src.config, src.debug, src.image)

\* NamesProvider::addNames(m, c, d, i, dm).  created keeps, for a module,
\* the registry constructed by the first call since the last clear that
\* had its module, config, image and demangler.
ProviderAddNames(m, c, d, i, dm) ==
    /\ \E r \in {NamesProvider_addNames(_module2names, m, c, d, i, dm, files)} :
          /\ _module2names' = r.table
          /\ last' = [NoCall EXCEPT !.op = "providerAddNames", !.m = m,
                                    !.c = c, !.d = d, !.i = i, !.dm = dm,
                                    !.ptr = r.ret,
                                    !.constructed = r.constructed]
    /\ created' =
          IF m = Null \/ c = Null \/ i = Null \/ dm = Null
                \/ m \in DOMAIN created
          THEN created
          ELSE [x \in DOMAIN created \cup {m} |->
                   IF x = m
                   THEN NameContainerCtor(ConfigOf(c), DebugOf(d), ImageOf(i),
                                          files)
                   ELSE created[x]]
    /\ UNCHANGED <<_data, _dllOrds, files, added, failedLibs>>

\* NamesProvider::getNames(m)
ProviderGetNames(m) ==
    /\ \E r \in {NamesProvider_getNames(_module2names, m)} :
          /\ _module2names' = r.table
          /\ last' = [NoCall EXCEPT !.op = "providerGetNames", !.m = m,
                                    !.ptr = r.ret]
    /\ UNCHANGED <<_data, _dllOrds, files, added, failedLibs, created>>

\* NamesProvider::getNames(m, names)
ProviderGetNamesInto(m) ==
    /\ \E r \in {NamesProvider_getNamesInto(_module2names, m)} :
          /\ _module2names' = r.table
          /\ last' = [NoCall EXCEPT !.op = "providerGetNamesInto", !.m = m,
                                    !.ptr = r.names, !.ret = r.ret]
    /\ UNCHANGED <<_data, _dllOrds, files, added, failedLibs, created>>

\* NamesProvider::clear()
ProviderClear ==
    /\ _module2names' = NamesProvider_clear(_module2names)
    /\ last' = [NoCall EXCEPT !.op = "providerClear"]
    /\ created' = NoTableEntries
    /\ UNCHANGED <<_data, _dllOrds, files, added, failedLibs>>

NextProvider ==
    \/ \E m \in Modules \cup {Null}, c \in Configs \cup {Null},
          d \in Debugs \cup {Null}, i \in Images \cup {Null},
          dm \in Demanglers \cup {Null} : ProviderAddNames(m, c, d, i, dm)
    \/ \E m \in Modules \cup {Null} : ProviderGetNames(m)
    \/ \E m \in Modules \cup {Null} : ProviderGetNamesInto(m)
    \/ ProviderClear

NextNames ==
    \/ \E a \in AddrInputs, name \in TextInputs, type \in TypeInputs :
          AddName(a, name, type)
    \/ \E a \in AddrInputs : GetNames(a)
    \/ \E a \in AddrInputs : GetPreferredName(a)

NextOrd ==
    \/ \E libName \in Libs, ord \in OrdInputs : Resolve(libName, ord)
    \/ \E libName \in WritableLibs : FileDelete(libName)
    \/ \E libName \in WritableLibs : FileCreate(libName)
    \/ \E libName \in WritableLibs, line \in LineInputs, nl \in BOOLEAN :
          FileAppend(libName, line, nl)

\* The calls of one registry together, on fewer inputs: names at one
\* address, queries at two, one ordinal, one line for the file of "foo".
NextRegistry ==
    \/ \E a \in {Undefined, 4096}, name \in {EmptyText, Text_f, Text_main},
          type \in TypeInputs : AddName(a, name, type)
    \/ \E a \in {4096, 8192} : GetNames(a)
    \/ \E a \in {4096, 8192} : GetPreferredName(a)
    \/ \E libName \in Libs : Resolve(libName, 7)
    \/ \E libName \in WritableLibs : FileDelete(libName)
    \/ \E libName \in WritableLibs : FileCreate(libName)
    \/ \E libName \in WritableLibs :
          FileAppend(libName, Line_7_CreateWidget, TRUE)

\* The registry under addNameForAddress and the two queries.
Spec == Init /\ [][NextNames]_vars

\* The registry under getNameFromImportLibAndOrd, with the ordinal files
\* changing under it.
SpecOrd == Init /\ [][NextOrd]_vars

\* The constructor, from sources of each kind.
SpecPop == InitPop /\ [][NextPop]_vars

\* One registry under all its calls, with the ordinal files changing
\* under it.
SpecRegistry == Init /\ [][NextRegistry]_vars

\* The provider of the registries.
SpecProvider == Init /\ [][NextProvider]_vars

-----------------------------------------------------------------------------
(* Notions the properties are stated with. *)

\* The order the names are ranked by: provenance first, then text lexically.
RankLess(x, y) ==
    \/ x.type < y.type
    \/ x.type = y.type /\ LexLess(x.name, y.name)

\* namesAt(a), in iteration order.
NamesAt(a) == IF a \in DOMAIN _data THEN _data[a] ELSE << >>

\* preferredNameAt(a)
PreferredAt(a) == getPreferredNameForAddress(_data, a).name

\* The collection at a holds the name n.
Stored(d, a, n) == a \in DOMAIN d /\ n \in Range(d[a])

\* The elements of a set of names in ranked order.
RECURSIVE Ranked(_)
Ranked(S) ==
    IF S = {} THEN << >>
    ELSE LET m == CHOOSE x \in S : \A y \in S : y = x \/ RankLess(x, y)
         IN  <<m>> \o Ranked(S \ {m})

\* The last call was addName with a defined address and a non-empty text.
ValidAdd(c) == c.op = "addName" /\ ~isUndefined(c.a) /\ c.name # EmptyText

\* The last call was addName with the undefined address or an empty text.
RejectedAdd(c) == c.op = "addName" /\ (isUndefined(c.a) \/ c.name = EmptyText)

-----------------------------------------------------------------------------
(* C1: addName with the undefined address or an empty text returns false   *)
(* and leaves the whole address-to-collection mapping as it was: no        *)
(* collection is created and no candidate set changes.                     *)
C1_RejectedAddChangesNothing ==
    [][RejectedAdd(last') => (last'.ret = FALSE /\ _data' = _data)]_vars

\* A rejected call on a registry that holds names.
C1_Witness ==
    /\ RejectedAdd(last)
    /\ last.ret = FALSE
    /\ \E a \in DOMAIN _data : _data[a] # << >>

(* C2: for a defined address and a non-empty text, addName returns true    *)
(* if and only if the pair (provenance, normalized text) was not in the    *)
(* collection at the address before the call.                              *)
C2_ReturnsWhetherAdded ==
    [][ValidAdd(last') =>
          (last'.ret = TRUE <=>
              ~Stored(_data, last'.a, NameCtor(last'.name, last'.type)))]_vars

(* C3: addName with a defined address and a non-empty text, called a       *)
(* second time in a row with the same arguments, leaves the mapping (the   *)
(* size, the elements and their order, the preferred name) as the first    *)
(* call left it.                                                           *)
C3_SecondAddChangesNothing ==
    [][(ValidAdd(last') /\ last'.again) => _data' = _data]_vars

\* The same valid addName has just been made twice in a row.
C3_Witness ==
    /\ ValidAdd(last)
    /\ last.again
    /\ Stored(_data, last.a, NameCtor(last.name, last.type))

(* C4: at every address the preferred name is the minimum of the           *)
(* collection under the order (provenance, then text), and is the invalid  *)
(* sentinel exactly when the collection is empty; right after addName      *)
(* returned true for (a, t, p) the preferred name at a has a provenance    *)
(* <= p, and has the text t when p is the smallest provenance present and  *)
(* t the smallest text of that provenance.                                 *)
C4_PreferredIsMinimum ==
    /\ \A a \in AddrInputs :
          LET ns == Range(NamesAt(a))
              p  == PreferredAt(a)
          IN  /\ p = EmptyName <=> ns = {}
              /\ ns # {} => /\ p \in ns
                            /\ \A n \in ns : n = p \/ RankLess(p, n)
    /\ (last.op = "addName" /\ last.ret) =>
          LET ns == Range(NamesAt(last.a))
              p  == PreferredAt(last.a)
          IN  /\ p.type <= last.type
              /\ ( /\ \A n \in ns : last.type <= n.type
                   /\ [name |-> last.name, type |-> last.type] \in ns
                   /\ \A n \in ns : n.type = last.type =>
                         (n.name = last.name \/ LexLess(last.name, n.name)) )
                 => p.name = last.name

\* addName has just returned true for a name that is not the preferred one
\* of its address.
C4_Witness ==
    /\ last.op = "addName" /\ last.ret
    /\ Len(NamesAt(last.a)) = 2
    /\ PreferredAt(last.a).type < last.type

(* C5: the mapping depends only on the set of (address, name) pairs added, *)
(* not on the order or the number of the calls that added them: each       *)
(* collection is the ranked sequence of the names added at its address, so *)
(* every permutation of the calls ends in the same collections, preferred  *)
(* names and iteration orders; of names of different provenance the        *)
(* preferred one is of the earliest category.                              *)
C5_OrderIndependent ==
    \A a \in AddrInputs :
        /\ NamesAt(a) = Ranked({q[2] : q \in {r \in added : r[1] = a}})
        /\ \A n \in Range(NamesAt(a)) : PreferredAt(a).type <= n.type

\* A collection of two names of different provenance, the call just made
\* having added the one that is iterated first.
C5_Witness ==
    /\ ValidAdd(last) /\ ~last.again
    /\ Len(NamesAt(last.a)) = 2
    /\ NamesAt(last.a)[1] = NameCtor(last.name, last.type)
    /\ NamesAt(last.a)[2].type # last.type

(* C6: no name stored at any address has the provenance invalid, so the    *)
(* preferred name at an address converts to false if and only if the       *)
(* collection there is empty.                                              *)
C6_NoInvalidStored ==
    \A a \in DOMAIN _data :
        /\ \A n \in Range(_data[a]) : n.type # eType.INVALID
        /\ ~NameBool(PreferredAt(a)) <=> _data[a] = << >>

-----------------------------------------------------------------------------
(* Notions the properties of the ordinal cache are stated with. *)

\* The last call was resolveOrdinalName for the library lib.
ResolveOf(c, lib) == c.op = "resolve" /\ c.lib = lib

\* A record line '<ordinal> <name>': a non-negative integer and a word.
IsRecord(line) ==
    /\ Len(line) = 2
    /\ line[1].num /\ line[1].val >= 0
    /\ ~line[2].num

\* The first token of the line parses as a non-negative integer.
ParsesOrdinal(line) ==
    /\ line # << >>
    /\ line[1].num /\ line[1].val >= 0

\* The name of the last record line of the file whose ordinal is n, the
\* empty string when there is none.
LastRecordName(lines, n) ==
    LET at == {i \in DOMAIN lines : lines[i][1].val = n}
    IN  IF at = {} THEN EmptyText
        ELSE lines[CHOOSE i \in at : \A j \in at : j <= i][2].text

(* C7: once resolveOrdinalName has been called for a library whose ordinal *)
(* file was absent, every later call for that library returns the empty    *)
(* string and makes no further attempt to read the file.                   *)
C7_AbsentFileNeverRetried ==
    [][\A lib \in failedLibs :
          ResolveOf(last', lib) =>
              (last'.str = EmptyText /\ ~last'.opened)]_vars

(* C7, amended: a call of resolveOrdinalName for a library whose ordinal   *)
(* file is absent returns the empty string and caches nothing, not even    *)
(* the failure; so every later call for that library, as long as no call   *)
(* has found the file, attempts the read again: it returns the empty       *)
(* string while the file is still absent, and once the file has appeared   *)
(* it loads it, caches its map and answers from that map.                  *)
C7_AbsentFileRetried ==
    [][\A lib \in failedLibs' :
          (ResolveOf(last', lib) /\ lib \notin DOMAIN _dllOrds) =>
              /\ last'.opened
              /\ ~files[lib].exists =>
                    (last'.str = EmptyText /\ _dllOrds' = _dllOrds)
              /\ files[lib].exists =>
                    /\ lib \in DOMAIN _dllOrds'
                    /\ _dllOrds'[lib] = loadImportOrds(files[lib]).ordMap
                    /\ last'.str = OrdLookup(_dllOrds'[lib], last'.ord)]_vars

\* A library whose file was once found absent has just been resolved to a
\* name, read from the file that has appeared since.
C7_Witness ==
    /\ last.op = "resolve"
    /\ last.lib \in failedLibs
    /\ last.opened
    /\ last.str # EmptyText

(* C8: the cache entry of a library is written at most once: once a        *)
(* library has an entry (also an empty map), no step removes or changes    *)
(* it, and a call for that library does not open the file and answers from *)
(* the cached map, whatever has happened to the file.                      *)
C8_CacheWrittenOnce ==
    [][\A lib \in DOMAIN _dllOrds :
          /\ lib \in DOMAIN _dllOrds'
          /\ _dllOrds'[lib] = _dllOrds[lib]
          /\ ResolveOf(last', lib) =>
                /\ ~last'.opened
                /\ last'.str = OrdLookup(_dllOrds[lib], last'.ord)]_vars

\* A call answered from the cache with a name the file no longer holds.
C8_Witness ==
    /\ last.op = "resolve"
    /\ ~last.opened
    /\ last.str # EmptyText
    /\ last.str # OrdLookup(loadImportOrds(files[last.lib]).ordMap, last.ord)

(* C9: a call that loads an ordinal file made of record lines returns the  *)
(* name of the last record line of the file with the ordinal asked for,    *)
(* the last line of the file included also when no newline ends it, and    *)
(* the empty string when the ordinal is not listed; a call for a library   *)
(* with no file returns the empty string.                                  *)
C9_LastRecordWins ==
    (last.op = "resolve" /\ last.opened) =>
        LET f == files[last.lib]
        IN  /\ ~f.exists => last.str = EmptyText
            /\ (f.exists /\ \A i \in DOMAIN f.lines : IsRecord(f.lines[i])) =>
                   last.str = LastRecordName(f.lines, last.ord)

(* C10: while an ordinal file is loaded, a line whose first token does not *)
(* parse as a non-negative integer adds no entry and changes no entry of   *)
(* the map: the map cached by a call that loads a file is the map of the   *)
(* lines read from it whose first token parses.                            *)
C10_UnparsedLinesSkipped ==
    (last.op = "resolve" /\ last.opened /\ files[last.lib].exists) =>
        _dllOrds[last.lib] =
            LoadLines(EmptyMap,
                      SelectSeq(LoopLines(files[last.lib]), ParsesOrdinal))

-----------------------------------------------------------------------------
(* C14: namesAt and preferredNameAt change the candidate set of no         *)
(* address; all they do to the mapping is to add an empty collection for   *)
(* the address asked for when it had none, and then the preferred name     *)
(* there is still the invalid sentinel and the collection has size 0.      *)
C14_QueriesNonDestructive ==
    [][last'.op \in {"getNames", "getPreferredName"} =>
          /\ DOMAIN _data' = DOMAIN _data \cup {last'.a}
          /\ \A x \in DOMAIN _data : _data'[x] = _data[x]
          /\ last'.a \notin DOMAIN _data =>
                /\ Names_size(_data'[last'.a]) = 0
                /\ Names_getPreferredName(_data'[last'.a]) = EmptyName
                /\ last'.op = "getPreferredName" =>
                      (last'.name = EmptyName.name /\ last'.type = EmptyName.type)
          /\ (last'.a \in DOMAIN _data /\ last'.op = "getPreferredName") =>
                [name |-> last'.name, type |-> last'.type] =
                    Names_getPreferredName(_data[last'.a])]_vars

\* A query has just created the empty collection of its address in a
\* registry that holds names at another address.
C14_Witness ==
    /\ last.op \in {"getNames", "getPreferredName"}
    /\ ~last.again
    /\ NamesAt(last.a) = << >>
    /\ \E x \in DOMAIN _data : Len(_data[x]) = 2

(* C18: addName with the text "_main" stores the text "main", so that      *)
(* "_main" and "main" added at one address with one provenance, in either  *)
(* order, make one element; every other non-empty text is stored as it is  *)
(* given; no stored name has an empty text.                                *)
C18_MainNormalized ==
    [][ValidAdd(last') =>
          LET n == [name |-> IF last'.name = Text__main THEN Text_main
                             ELSE last'.name,
                    type |-> last'.type]
          IN  /\ Range(_data'[last'.a]) = Range(NamesAt(last'.a)) \cup {n}
              /\ Len(_data'[last'.a]) = Cardinality(Range(_data'[last'.a]))
              /\ \A a \in DOMAIN _data' : \A x \in Range(_data'[a]) :
                    x.name # EmptyText /\ x.name # Text__main]_vars

\* "_main" has just been added where "main" of the same provenance was
\* the only name, and the collection still has one element.
C18_Witness ==
    /\ ValidAdd(last) /\ last.name = Text__main /\ ~last.again
    /\ NamesAt(last.a) = <<[name |-> Text_main, type |-> last.type]>>


\* The library whose ordinal file an import is resolved against: the
\* library name of the import in lower case, without ".dll".
NormalizedLib(lib) ==
    CASE lib = Text_FOO_DLL -> "foo"
      [] lib = Text_bar     -> "missing"

\* The decimal rendering of the ordinals of the imports.
DecimalOf(ord) ==
    CASE ord = 0  -> <<48>>
      [] ord = 7  -> <<55>>
      [] ord = 99 -> <<57, 57>>

\* What the ordinal of an unnamed import resolves to at construction.
ResolvedText(imp) ==
    LET f == files[NormalizedLib(imp.lib)]
    IN  IF f.exists THEN LastRecordName(f.lines, imp.ord) ELSE EmptyText

\* The names an import is to leave: none or one.
ImportNames(imp) ==
    IF imp.name # EmptyText
    THEN {[name |-> imp.name, type |-> eType.IMPORT]}
    ELSE IF ~imp.hasOrd THEN {}
    ELSE IF ResolvedText(imp) # EmptyText
    THEN {[name |-> ResolvedText(imp), type |-> eType.IMPORT]}
    ELSE {[name |-> Text_generatedImportPrefix \o DecimalOf(imp.ord),
           type |-> eType.IMPORT_GENERATED]}

\* The imports of the constructed image.
ImportsOf(c) == IF c.image.imports.present THEN Range(c.image.imports.items)
                ELSE {}

(* C15: the constructor leaves, for each import with a defined address:    *)
(* its name with provenance IMPORT when it has one; when it has none but   *)
(* has an ordinal, the name the ordinal resolves to in the file of the     *)
(* lower-cased, ".dll"-stripped library, with provenance IMPORT, or, when   *)
(* that is empty, the generated-import prefix followed by the ordinal in   *)
(* decimal, with provenance IMPORT_GENERATED; when it has neither, nothing. *)
(* No other name of these two provenances is stored.                       *)
C15_ImportNaming ==
    last.op = "construct" =>
        \A a \in {4096} \cup DOMAIN _data :
            {n \in Range(NamesAt(a)) :
                n.type \in {eType.IMPORT, eType.IMPORT_GENERATED}}
            = UNION {ImportNames(imp) :
                        imp \in {x \in ImportsOf(last) : x.addr = a}}

\* A registry constructed from an unnamed import whose ordinal resolved in
\* the file of "foo" and an unnamed import of "bar" whose ordinal did not.
C15_Witness ==
    /\ last.op = "construct"
    /\ \E x, y \in ImportsOf(last) :
          /\ x.addr = 4096 /\ x.name = EmptyText /\ x.hasOrd
          /\ x.lib = Text_FOO_DLL /\ ResolvedText(x) = Text_CreateWidget
          /\ y.addr = 4096 /\ y.name = EmptyText /\ y.hasOrd
          /\ y.lib = Text_bar /\ y.ord = 99
    /\ Stored(_data, 4096, [name |-> Text_CreateWidget, type |-> eType.IMPORT])
    /\ Stored(_data, 4096,
              [name |-> Text_generatedImportPrefix \o <<57, 57>>,
               type |-> eType.IMPORT_GENERATED])

\* The candidates a list of items stands for: address and name, for the
\* items with a defined address and a non-empty text.
ItemCandidates(items, type) ==
    {<<i.addr, NameCtor(i.name, type)>> :
        i \in {x \in Range(items) :
                  ~isUndefined(x.addr) /\ x.name # EmptyText}}

\* The candidates of the config phase.
ConfigCandidates(c) ==
    (IF isUndefined(c.config.entryPoint) THEN {}
     ELSE {<<c.config.entryPoint,
             [name |-> Text_entryPointName,
              type |-> eType.CONFIG_ENTRY_POINT]>>})
    \cup ItemCandidates(c.config.functions, eType.CONFIG_FUNCTION)
    \cup ItemCandidates(c.config.globals, eType.CONFIG_GLOBAL)
    \cup ItemCandidates(c.config.segments, eType.CONFIG_SEGMENT)

\* The candidates of the debug phase.
DebugCandidates(c) ==
    IF ~c.debug.present THEN {}
    ELSE ItemCandidates(c.debug.functions, eType.DEBUG_FUNCTION)
         \cup ItemCandidates(SelectSeq(c.debug.globals,
                                       LAMBDA g : g.isMemory),
                             eType.DEBUG_GLOBAL)

\* The candidates of the symbol tables.
SymbolCandidates(c) ==
    UNION {ItemCandidates(SelectSeq(c.image.symbols,
                              LAMBDA s : s.hasAddr /\ s.usage = u[1]), u[2]) :
              u \in {<<"FUNCTION", eType.SYMBOL_FUNCTION>>,
                     <<"OBJECT", eType.SYMBOL_OBJECT>>,
                     <<"FILE", eType.SYMBOL_FILE>>,
                     <<"OTHER", eType.SYMBOL_OTHER>>}}

\* The candidates of the image phase.
ImageCandidates(c) ==
    UNION {{<<imp.addr, n>> : n \in ImportNames(imp)} :
              imp \in {x \in ImportsOf(c) : ~isUndefined(x.addr)}}
    \cup (IF c.image.exports.present
          THEN ItemCandidates(c.image.exports.items, eType.EXPORT) ELSE {})
    \cup SymbolCandidates(c)
    \cup (IF c.image.ep.ok
          THEN {<<c.image.ep.addr, [name |-> Text_entryPointName,
                                    type |-> eType.ENTRY_POINT]>>}
          ELSE {})
    \cup ItemCandidates(c.image.segments, eType.ENTRY_POINT)

\* The candidates of a set at an address.
At(cands, a) == {x[2] : x \in {y \in cands : y[1] = a}}

(* C16: the constructor is additive over its phases config, debug, image:  *)
(* every candidate of every phase with a defined address and a non-empty   *)
(* text is in the registry it leaves; the collections after a phase        *)
(* contain those after the phase before; and at an address with a config   *)
(* name the preferred name is a config name, at one with a debug name and  *)
(* no config name a debug name.                                            *)
C16_PopulationAdditive ==
    last.op = "construct" =>
        LET s1 == initFromConfig(EmptyRegistry, last.config).data
            s2 == initFromDebug([EmptyRegistry EXCEPT !.data = s1],
                                last.debug).data
            all == ConfigCandidates(last) \cup DebugCandidates(last)
                      \cup ImageCandidates(last)
        IN  /\ \A x \in all : Stored(_data, x[1], x[2])
            /\ \A x \in ConfigCandidates(last) : Stored(s1, x[1], x[2])
            /\ \A a \in DOMAIN s1 :
                  a \in DOMAIN s2 /\ Range(s1[a]) \subseteq Range(s2[a])
            /\ \A a \in DOMAIN s2 :
                  a \in DOMAIN _data /\ Range(s2[a]) \subseteq Range(_data[a])
            /\ \A a \in DOMAIN _data :
                  /\ At(ConfigCandidates(last), a) # {} =>
                        PreferredAt(a) \in At(ConfigCandidates(last), a)
                  /\ (/\ At(ConfigCandidates(last), a) = {}
                      /\ At(DebugCandidates(last), a) # {}) =>
                        PreferredAt(a) \in At(DebugCandidates(last), a)

\* A registry constructed from a config function, a debug function and a
\* symbol at one address: it holds the three, the config one preferred.
C16_Witness ==
    /\ last.op = "construct"
    /\ At(ConfigCandidates(last), 4096) # {}
    /\ At(DebugCandidates(last), 4096) # {}
    /\ At(SymbolCandidates(last), 4096) # {}
    /\ Len(NamesAt(4096)) = 3
    /\ PreferredAt(4096).type = eType.CONFIG_FUNCTION

\* The provenances of the config, debug, import, export and symbol names.
OtherSourceTypes ==
    {eType.CONFIG_ENTRY_POINT, eType.CONFIG_FUNCTION, eType.CONFIG_GLOBAL,
     eType.CONFIG_SEGMENT, eType.DEBUG_FUNCTION, eType.DEBUG_GLOBAL,
     eType.IMPORT_GENERATED, eType.IMPORT, eType.EXPORT,
     eType.SYMBOL_FUNCTION, eType.SYMBOL_OBJECT, eType.SYMBOL_FILE,
     eType.SYMBOL_OTHER}

(* C17: when the config and the image report the same entry-point address, *)
(* the registry the constructor leaves holds the synthetic entry-point     *)
(* text there with provenance CONFIG_ENTRY_POINT and with provenance       *)
(* ENTRY_POINT, the config one preferred; and each segment name of the     *)
(* image is stored at the start of its segment with provenance ENTRY_POINT, *)
(* never with CONFIG_SEGMENT, below every config, debug, import, export    *)
(* and symbol name of that address.                                        *)
C17_EntryPointAndSegments ==
    last.op = "construct" =>
        /\ (/\ last.image.ep.ok
            /\ last.image.ep.addr = last.config.entryPoint) =>
              LET a == last.image.ep.addr
                  fromConfig == [name |-> Text_entryPointName,
                                 type |-> eType.CONFIG_ENTRY_POINT]
                  fromImage  == [name |-> Text_entryPointName,
                                 type |-> eType.ENTRY_POINT]
              IN  /\ Stored(_data, a, fromConfig)
                  /\ Stored(_data, a, fromImage)
                  /\ {n \in Range(NamesAt(a)) : n.name = Text_entryPointName}
                        = {fromConfig, fromImage}
                  /\ PreferredAt(a) = fromConfig
        /\ \A x \in ItemCandidates(last.image.segments, eType.ENTRY_POINT) :
              /\ Stored(_data, x[1], x[2])
              /\ \A n \in Range(NamesAt(x[1])) :
                    /\ n.type \in OtherSourceTypes => RankLess(n, x[2])
                    /\ n.type = eType.CONFIG_SEGMENT =>
                          <<x[1], n>> \in ItemCandidates(last.config.segments,
                                                         eType.CONFIG_SEGMENT)

\* A registry constructed from a config and an image that report the same
\* entry point, where the image also has a segment, the config a segment
\* and the symbol table a symbol.
C17_Witness ==
    /\ last.op = "construct"
    /\ last.image.ep.ok /\ last.image.ep.addr = 4096
    /\ last.config.entryPoint = 4096
    /\ last.image.segments = <<Item(4096, Text_dottext)>>
    /\ last.config.segments = <<Item(4096, Text_dottext)>>
    /\ last.image.symbols # << >>
    /\ Stored(_data, 4096, [name |-> Text_dottext, type |-> eType.ENTRY_POINT])
    /\ Stored(_data, 4096,
              [name |-> Text_dottext, type |-> eType.CONFIG_SEGMENT])
    /\ Len(NamesAt(4096)) >= 5

\* A call of NamesProvider::addNames with its module, config, image and
\* demangler, whatever its debug format.
CompleteAdd(c) ==
    /\ c.op = "providerAddNames"
    /\ c.m # Null /\ c.c # Null /\ c.i # Null /\ c.dm # Null

\* The registry holds a name that comes from debug information.
HoldsDebugNames(reg) ==
    \E a \in DOMAIN reg.data : \E n \in Range(reg.data[a]) :
        n.type \in {eType.DEBUG_FUNCTION, eType.DEBUG_GLOBAL}

(* C11: addNames with every required collaborator, for a module the table  *)
(* holds a registry for, leaves the table as it is and returns the         *)
(* registry of that module, which is the one the first call constructed.   *)
C11_FirstWriterWins ==
    [][(CompleteAdd(last') /\ last'.m \in DOMAIN _module2names) =>
          /\ _module2names' = _module2names
          /\ last'.ptr = last'.m
          /\ _module2names'[last'.m] = created[last'.m]]_vars

\* addNames has just returned, for a module, a registry that is not the
\* one its own sources construct.
C11_Witness ==
    /\ CompleteAdd(last)
    /\ last.ptr = last.m
    /\ last.m \in DOMAIN _module2names
    /\ _module2names[last.m] = created[last.m]
    /\ _module2names[last.m] #
          NameContainerCtor(ConfigOf(last.c), DebugOf(last.d),
                            ImageOf(last.i), files)

(* C12: addNames without module, config, image or demangler returns null,  *)
(* constructs nothing and leaves the table as it is; addNames with those   *)
(* four and without debug format returns a registry that holds no          *)
(* debug-function or debug-global name.                                    *)
C12_AbsentCollaborators ==
    [][last'.op = "providerAddNames" =>
          /\ ~CompleteAdd(last') =>
                /\ last'.ptr = Null /\ ~last'.constructed
                /\ _module2names' = _module2names
          /\ (CompleteAdd(last') /\ last'.d = Null) =>
                /\ last'.ptr = last'.m
                /\ ~HoldsDebugNames(_module2names'[last'.m])]_vars

(* C12, amended: addNames without module, config, image or demangler       *)
(* returns null, constructs nothing and leaves the table as it is;         *)
(* addNames with those four and without debug format returns a registry:   *)
(* for a module the table holds no registry for, a new one that holds no   *)
(* debug-function or debug-global name; for a module it holds one for,     *)
(* that one, as it is, with the debug names it holds.                      *)
C12_AbsentDebugOnFirstCreate ==
    [][last'.op = "providerAddNames" =>
          /\ ~CompleteAdd(last') =>
                /\ last'.ptr = Null /\ ~last'.constructed
                /\ _module2names' = _module2names
          /\ (CompleteAdd(last') /\ last'.d = Null) =>
                /\ last'.ptr = last'.m
                /\ last'.m \in DOMAIN _module2names'
                /\ last'.m \notin DOMAIN _module2names =>
                      ~HoldsDebugNames(_module2names'[last'.m])
                /\ last'.m \in DOMAIN _module2names =>
                      _module2names'[last'.m] = _module2names[last'.m]]_vars

\* addNames without debug format has just returned a registry that holds
\* names, none of them from debug information, while the registry of
\* another module holds debug names.
C12_Witness ==
    /\ CompleteAdd(last) /\ last.d = Null
    /\ last.ptr = last.m
    /\ _module2names[last.m].data # EmptyRegistry.data
    /\ ~HoldsDebugNames(_module2names[last.m])
    /\ \E x \in DOMAIN _module2names : HoldsDebugNames(_module2names[x])

(* C13: getNames(m) returns a registry exactly when an addNames for m with *)
(* module, config, image and demangler has been called since the last      *)
(* clear, and then the one the first such call constructed; getNames       *)
(* leaves the table as it is; clear leaves the table empty.                *)
C13_ProviderLifecycle ==
    [][/\ last'.op \in {"providerGetNames", "providerGetNamesInto"} =>
             /\ last'.ptr # Null <=> last'.m \in DOMAIN created
             /\ last'.ptr # Null =>
                   /\ last'.ptr = last'.m
                   /\ _module2names'[last'.ptr] = created[last'.m]
             /\ last'.op = "providerGetNamesInto" =>
                   (last'.ret <=> last'.ptr # Null)
             /\ _module2names' = _module2names
       /\ last'.op = "providerClear" => DOMAIN _module2names' = {}]_vars

\* getNames has just returned the registry of a module while the table
\* holds none for the other module.
C13_Witness ==
    /\ last.op = "providerGetNames"
    /\ last.ptr = "m1"
    /\ DOMAIN _module2names = {"m1"}
    /\ HoldsDebugNames(_module2names["m1"])

(* C19: no step of a registry under addNameForAddress, the two queries and *)
(* getNameFromImportLibAndOrd removes an address from the mapping, a name  *)
(* from the collection of an address or a library from the cache; and the  *)
(* preferred name of an address that has names stays what it is or gives   *)
(* way to a name that ranks before it.                                     *)
C19_MonotonicGrowth ==
    [][/\ DOMAIN _data \subseteq DOMAIN _data'
       /\ \A a \in DOMAIN _data :
             /\ Range(_data[a]) \subseteq Range(_data'[a])
             /\ _data[a] # << >> =>
                   \/ Names_getPreferredName(_data'[a])
                         = Names_getPreferredName(_data[a])
                   \/ RankLess(Names_getPreferredName(_data'[a]),
                               Names_getPreferredName(_data[a]))
       /\ DOMAIN _dllOrds \subseteq DOMAIN _dllOrds']_vars

\* A config name has just been added where a debug name was, in a registry
\* that has a cached library and the empty collection of a query.
C19_Witness ==
    /\ ValidAdd(last) /\ last.type = eType.CONFIG_FUNCTION
    /\ Len(NamesAt(4096)) = 2
    /\ PreferredAt(4096).type = eType.CONFIG_FUNCTION
    /\ \E n \in Range(NamesAt(4096)) : n.type = eType.DEBUG_FUNCTION
    /\ 8192 \in DOMAIN _data
    /\ "foo" \in DOMAIN _dllOrds

=============================================================================
